---- MODULE Spec2Model ----
(***************************************************************************)
(* goodhare: export of playlist tracks to CSV.                             *)
(*   src/auth.py            is_token_expired, refresh_token                *)
(*   src/app.py             ensure_valid_token, export, callback, logout   *)
(*   src/data_gathering.py  get_playlist_tracks, extract_track_info        *)
(*   src/data_output.py     format_track_data, combine_tracks_from_...,    *)
(*                          generate_csv_content                           *)
(*                                                                         *)
(* Python values are tagged records, so that None, strings, integers,      *)
(* lists and dictionaries can be told apart.  A Python str is a sequence   *)
(* of one-character strings; a Python dict is a function from its keys.    *)
(***************************************************************************)
EXTENDS Integers, Sequences, FiniteSets, TLC

\* ------------------------------------------------------------------------
\* Bounds of the model
\* ------------------------------------------------------------------------

\* longest artists list of a raw track record drawn by InitNorm
MaxArtists == 2

\* most pages of a collection, and most items of all its pages together,
\* drawn by InitFetch
MaxPages == 2

MaxItems == 2

\* most collections selected in one export request
MaxSel == 3

\* seconds the clock advances in one Tick, and the last instant of the model
TickLen == 30

MaxNow == 60

\* lifetime in seconds of a credential issued or refreshed upstream
TokenTTL == 75

VARIABLES
    session,          \* session['token_info']: PyNone or a credential
    now,              \* time.time()
    catalog,          \* upstream: collection id -> its pages, each a list of items
    faults,           \* upstream: the statuses a failed catalog request may have
    pc,               \* position of the request handler
    token_info,       \* export: the local token_info
    playlist_ids,     \* export: request.form.getlist('playlist_ids')
    playlist_dict,    \* export: id -> display name
    idx,              \* export: position of the loop over playlist_ids
    all_tracks_data,  \* export: dict display name -> tracks, in insertion order
    flashes,          \* messages flashed by the request
    response,         \* what the request returned
    gate,             \* history: the path ensure_valid_token took
    idp_calls,        \* history: calls to the identity provider by the request
    cat_calls,        \* history: calls to the catalog API by the request
    last_call,        \* history: the latest catalog call, its time and credential
    fetched,          \* history: outcome of each get_playlist_tracks of the loop
    f_pc,             \* get_playlist_tracks: position
    f_id,             \* get_playlist_tracks: playlist_id
    f_page,           \* get_playlist_tracks: index of the page held in results
    f_tracks,         \* get_playlist_tracks: tracks
    f_result,         \* get_playlist_tracks: value returned or exception raised
    f_seen,           \* history: the items of the pages received
    f_upstream,       \* history: the upstream failure received, if any
    f_requests,       \* history: the numbers of the pages requested, in order
    playlist_pages,   \* upstream: the pages of the user's playlists
    l_pc,             \* get_user_playlists: position
    l_page,           \* get_user_playlists: index of the page held in results
    l_playlists,      \* get_user_playlists: playlists
    l_result,         \* get_user_playlists: value returned or exception raised
    l_requests,       \* history: the numbers of the pages requested, in order
    n_pc,             \* normaliser run: position
    n_track,          \* normaliser run: the raw track record
    n_result,         \* normaliser run: result of extract_track_info
    n_row             \* normaliser run: row of format_track_data

credVars == <<session, now>>

exportVars == <<pc, token_info, playlist_ids, playlist_dict, idx, all_tracks_data,
                flashes, response, gate, idp_calls, fetched>>

fetchVars == <<f_pc, f_id, f_page, f_tracks, f_result, f_seen, f_upstream, f_requests>>

listVars == <<playlist_pages, l_pc, l_page, l_playlists, l_result, l_requests>>

callVars == <<cat_calls, last_call>>

normVars == <<n_pc, n_track, n_result, n_row>>

worldVars == <<catalog, faults>>

vars == <<credVars, worldVars, exportVars, callVars, fetchVars, normVars, listVars>>

\* ------------------------------------------------------------------------
\* Python values
\* ------------------------------------------------------------------------

PyNone == [t |-> "none"]

PyStr(s) == [t |-> "str", s |-> s]

PyInt(n) == [t |-> "int", n |-> n]

PyList(l) == [t |-> "list", l |-> l]

PyDict(d) == [t |-> "dict", d |-> d]

\* marks a key that the dictionary does not hold (never a value of a dict)
Absent == [t |-> "absent"]

\* the dictionary holding the keys of kv whose value is not Absent
MkDict(kv) == [k \in {x \in DOMAIN kv : kv[x] # Absent} |-> kv[k]]

EmptyDict == MkDict([k \in {} |-> Absent])

\* dict.get(key, default)
DictGet(d, key, default) == IF key \in DOMAIN d THEN d[key] ELSE default

\* bool(v)
Truthy(v) ==
    CASE v.t = "none" -> FALSE
      [] v.t = "str"  -> v.s # <<>>
      [] v.t = "int"  -> v.n # 0
      [] v.t = "list" -> v.l # <<>>
      [] v.t = "dict" -> DOMAIN v.d # {}

IsDict(v) == v.t = "dict"

IsList(v) == v.t = "list"

IsStr(v) == v.t = "str"

\* ------------------------------------------------------------------------
\* String literals of the source
\* ------------------------------------------------------------------------

UnknownArtist == <<"U","n","k","n","o","w","n"," ","A","r","t","i","s","t">>

UnknownAlbum == <<"U","n","k","n","o","w","n"," ","A","l","b","u","m">>

UnknownTrack == <<"U","n","k","n","o","w","n"," ","T","r","a","c","k">>

CommaSpace == <<",", " ">>

\* ------------------------------------------------------------------------
\* str(), str.split('-')[0], ', '.join
\* ------------------------------------------------------------------------

Digit(n) == <<"0","1","2","3","4","5","6","7","8","9">>[n + 1]

RECURSIVE NatToStr(_)
NatToStr(n) == IF n < 10 THEN <<Digit(n)>> ELSE NatToStr(n \div 10) \o <<Digit(n % 10)>>

IntToStr(n) == IF n < 0 THEN <<"-">> \o NatToStr(-n) ELSE NatToStr(n)

RECURSIVE PyRepr(_)
\* repr(v) for None, integers, strings without quotes or escapes, and lists
PyRepr(v) ==
    LET RECURSIVE Items(_)
        Items(l) == IF l = <<>> THEN <<>>
                    ELSE IF Len(l) = 1 THEN PyRepr(l[1])
                    ELSE PyRepr(l[1]) \o CommaSpace \o Items(Tail(l))
    IN  CASE v.t = "none" -> <<"N","o","n","e">>
          [] v.t = "int"  -> IntToStr(v.n)
          [] v.t = "str"  -> <<"'">> \o v.s \o <<"'">>
          [] v.t = "list" -> <<"[">> \o Items(v.l) \o <<"]">>
          [] v.t = "dict" -> <<"{", "}">>

\* str(v)
PyStrOf(v) == IF v.t = "str" THEN v.s ELSE PyRepr(v)

RECURSIVE SplitFirst(_, _)
\* s.split(sep)[0]: the characters of s before the first sep
SplitFirst(s, sep) ==
    IF s = <<>> \/ Head(s) = sep THEN <<>>
    ELSE <<Head(s)>> \o SplitFirst(Tail(s), sep)

RECURSIVE JoinStrs(_, _)
\* sep.join(l) for a list l of str values
JoinStrs(sep, l) ==
    IF l = <<>> THEN <<>>
    ELSE IF Len(l) = 1 THEN l[1].s
    ELSE l[1].s \o sep \o JoinStrs(sep, Tail(l))

\* sep.join(l): TypeError when an item of l is not a str
PyJoin(sep, l) ==
    IF \E i \in 1..Len(l) : ~IsStr(l[i])
    THEN [ok |-> FALSE, exc |-> "TypeError"]
    ELSE [ok |-> TRUE, val |-> JoinStrs(sep, l)]

\* ------------------------------------------------------------------------
\* data_gathering.extract_track_info
\* ------------------------------------------------------------------------

RECURSIVE ArtistNames(_)
\* line 197: [artist.get('name', 'Unknown Artist') for artist in artists_list
\*            if isinstance(artist, dict)]
ArtistNames(l) ==
    IF l = <<>> THEN <<>>
    ELSE (IF IsDict(Head(l))
          THEN <<DictGet(Head(l).d, "name", PyStr(UnknownArtist))>>
          ELSE <<>>) \o ArtistNames(Tail(l))

\* lines 195-200: the artist string, or the TypeError of ', '.join
ExtractArtists(track) ==
    LET artists_list == DictGet(track, "artists", PyList(<<>>))
    IN  IF Truthy(artists_list) /\ IsList(artists_list)
        THEN LET artist_names == ArtistNames(artists_list.l)
             IN  IF artist_names # <<>>
                 THEN PyJoin(CommaSpace, artist_names)
                 ELSE [ok |-> TRUE, val |-> UnknownArtist]
        ELSE [ok |-> TRUE, val |-> UnknownArtist]

\* lines 203-209: album name
ExtractAlbumName(track) ==
    LET album == DictGet(track, "album", PyDict(EmptyDict))
    IN  IF IsDict(album) THEN DictGet(album.d, "name", PyStr(UnknownAlbum))
        ELSE PyStr(UnknownAlbum)

\* lines 203-217: release year
ExtractYear(track) ==
    LET album == DictGet(track, "album", PyDict(EmptyDict))
        release_date == IF IsDict(album) THEN DictGet(album.d, "release_date", PyStr(<<>>))
                        ELSE PyStr(<<>>)
    IN  IF Truthy(release_date) THEN SplitFirst(PyStrOf(release_date), "-") ELSE <<>>

\* lines 184-226: the Track dictionary, or the exception raised
extract_track_info(track) ==
    LET artists == ExtractArtists(track)
    IN  IF ~artists.ok THEN [ok |-> FALSE, exc |-> artists.exc]
        ELSE [ok |-> TRUE,
              val |-> [id |-> DictGet(track, "id", PyStr(<<>>)),
                       name |-> DictGet(track, "name", PyStr(UnknownTrack)),
                       artist |-> PyStr(artists.val),
                       album |-> ExtractAlbumName(track),
                       year |-> PyStr(ExtractYear(track)),
                       duration_ms |-> DictGet(track, "duration_ms", PyInt(0))]]

\* ------------------------------------------------------------------------
\* data_output.format_track_data (one row), combine_tracks_from_playlists
\* ------------------------------------------------------------------------

\* lines 23-30: the row of one track; track is a dictionary
FormatRow(track, playlist_name) ==
    [Name |-> DictGet(track, "name", PyStr(UnknownTrack)),
     Artist |-> DictGet(track, "artist", PyStr(UnknownArtist)),
     Album |-> DictGet(track, "album", PyStr(UnknownAlbum)),
     Year |-> DictGet(track, "year", PyStr(<<>>)),
     Duration |-> DictGet(track, "duration_ms", PyInt(0)),
     Playlist |-> playlist_name]

\* lines 10-31
format_track_data(tracks, playlist_name) ==
    [i \in 1..Len(tracks) |-> FormatRow(tracks[i], playlist_name)]

\* ------------------------------------------------------------------------
\* data_gathering.get_playlist_tracks
\* ------------------------------------------------------------------------

\* line 123: the sentinel of the saved tracks
LikedSongsId == <<"l","i","k","e","d","_","s","o","n","g","s">>

\* statuses of a failed catalog call (spotipy raises SpotifyException)
HttpFailures == {401, 403, 404, 500}

\* the SpotifyException of a failed call; msg stands for str(e)
SpotifyException(status) ==
    [http_status |-> status,
     msg |-> CASE status = 403 -> "http status: 403 Forbidden"
               [] status = 404 -> "http status: 404 Not Found"
               [] status = 401 -> "http status: 401 Unauthorized"
               [] OTHER -> "http status: 500 Server Error"]

\* an exception raised other than by a handler of get_playlist_tracks
RawException(type) == [type |-> type, text |-> "", detail |-> ""]

\* lines 140-147: the handler of the first request of a playlist's tracks
InnerHandler(e) ==
    IF e.http_status = 403
    THEN [type |-> "Exception",
          text |-> "Access denied to playlist. You may need to re-authenticate with updated permissions, or this playlist may not be accessible with your current permissions.",
          detail |-> ""]
    ELSE IF e.http_status = 404
    THEN [type |-> "Exception",
          text |-> "Playlist not found. It may have been deleted or you may not have access.",
          detail |-> ""]
    ELSE [type |-> "Exception", text |-> "Error accessing playlist: ", detail |-> e.msg]

\* lines 175-181: the handler around the whole function
OuterHandler(e) ==
    IF e.http_status = 403
    THEN [type |-> "Exception",
          text |-> "Access denied. You may need to re-authenticate with updated permissions.",
          detail |-> ""]
    ELSE IF e.http_status = 404
    THEN [type |-> "Exception",
          text |-> "Resource not found. It may have been deleted or you may not have access.",
          detail |-> ""]
    ELSE [type |-> "Exception", text |-> "Error fetching playlist tracks: ", detail |-> e.msg]

\* a slip: the outer handler catches every Exception, so that the error the
\* inner handler raised is wrapped again
RaisedForRewrapped(playlist_id, stage, e) ==
    IF playlist_id # LikedSongsId /\ stage = "first"
    THEN [type |-> "Exception", text |-> "Error fetching playlist tracks: ",
          detail |-> InnerHandler(e).text]
    ELSE OuterHandler(e)

\* what a SpotifyException of the call at `stage` ("first" or "later") becomes:
\* the first request of a playlist is inside the inner try, whose Exception
\* the outer `except SpotifyException` lets through
RaisedFor(playlist_id, stage, e) ==
    IF playlist_id # LikedSongsId /\ stage = "first" THEN InnerHandler(e)
    ELSE OuterHandler(e)

\* a or b
PyOr(a, b) == IF Truthy(a) THEN a ELSE b

\* lines 128-130: one item of a page of saved tracks
LikedItem(item) ==
    LET track == DictGet(item, "track", PyNone)
    IN  IF ~Truthy(track) THEN [ok |-> TRUE, add |-> <<>>]
        ELSE IF ~IsDict(track) THEN [ok |-> FALSE, exc |-> RawException("AttributeError")]
        ELSE IF ~Truthy(DictGet(track.d, "id", PyNone)) THEN [ok |-> TRUE, add |-> <<>>]
        ELSE LET info == extract_track_info(track.d)
             IN  IF info.ok THEN [ok |-> TRUE, add |-> <<info.val>>]
                 ELSE [ok |-> FALSE, exc |-> RawException(info.exc)]

\* a slip: the media type of a playlist item is not looked at
PlaylistItemAnyType(item) ==
    LET track == PyOr(DictGet(item, "item", PyNone), DictGet(item, "track", PyNone))
    IN  IF ~(Truthy(track) /\ IsDict(track)) THEN [ok |-> TRUE, add |-> <<>>]
        ELSE IF ~Truthy(DictGet(track.d, "id", PyNone)) THEN [ok |-> TRUE, add |-> <<>>]
        ELSE LET info == extract_track_info(track.d)
             IN  IF info.ok THEN [ok |-> TRUE, add |-> <<info.val>>]
                 ELSE [ok |-> FALSE, exc |-> RawException(info.exc)]

\* lines 156-167: one item of a page of a playlist's tracks
PlaylistItem(item) ==
    LET track == PyOr(DictGet(item, "item", PyNone), DictGet(item, "track", PyNone))
    IN  IF ~(Truthy(track) /\ IsDict(track)) THEN [ok |-> TRUE, add |-> <<>>]
        ELSE LET track_type == DictGet(track.d, "type", PyStr(<<>>))
                 track_id == DictGet(track.d, "id", PyNone)
             IN  IF ~(track_type = PyStr(<<"t","r","a","c","k">>) /\ Truthy(track_id))
                 THEN [ok |-> TRUE, add |-> <<>>]
                 ELSE LET info == extract_track_info(track.d)
                      IN  IF info.ok THEN [ok |-> TRUE, add |-> <<info.val>>]
                          ELSE [ok |-> FALSE, exc |-> RawException(info.exc)]

RECURSIVE PageItems(_, _, _)
\* lines 127-130, 150-167: the loop over the items of one page
PageItems(playlist_id, items, tracks) ==
    IF items = <<>> THEN [ok |-> TRUE, tracks |-> tracks]
    ELSE LET r == IF playlist_id = LikedSongsId THEN LikedItem(Head(items))
                  ELSE PlaylistItem(Head(items))
         IN  IF r.ok THEN PageItems(playlist_id, Tail(items), tracks \o r.add)
             ELSE [ok |-> FALSE, exc |-> r.exc]

\* the statuses upstream may answer a request about a collection with
Statuses(playlist_id) ==
    IF playlist_id \in DOMAIN catalog THEN {200} \cup faults ELSE faults

NoUpstreamFailure == [stage |-> "none", status |-> 200]

NoCall == [api |-> "none", at |-> 0, expires_at |-> 0]

\* one request of a page (number n) and the loop over its items
RequestPage(n, stage) ==
    \E status \in Statuses(f_id) :
        /\ cat_calls' = cat_calls + 1
        /\ last_call' = [api |-> "tracks", at |-> now, expires_at |-> token_info.expires_at]
        /\ f_requests' = Append(f_requests, n)
        /\ IF status # 200
           THEN /\ f_result' = [ok |-> FALSE,
                                exc |-> RaisedFor(f_id, stage, SpotifyException(status))]
                /\ f_upstream' = [stage |-> stage, status |-> status]
                /\ f_pc' = "ret"
                /\ UNCHANGED <<f_page, f_tracks, f_seen>>
           ELSE LET items == catalog[f_id][n]
                    r == PageItems(f_id, items, f_tracks)
                IN  /\ f_seen' = f_seen \o items
                    /\ f_page' = n
                    /\ UNCHANGED f_upstream
                    /\ IF ~r.ok
                       THEN /\ f_result' = [ok |-> FALSE, exc |-> r.exc]
                            /\ f_pc' = "ret"
                            /\ UNCHANGED f_tracks
                       ELSE /\ f_tracks' = r.tracks
                            /\ IF n < Len(catalog[f_id])
                               THEN f_pc' = "next" /\ UNCHANGED f_result
                               ELSE /\ f_pc' = "ret"
                                    /\ f_result' = [ok |-> TRUE, tracks |-> r.tracks]

\* lines 119-147 and the first page: sp.current_user_saved_tracks or
\* sp.playlist_tracks
GetTracksFirstPage ==
    /\ f_pc = "call"
    /\ RequestPage(1, "first")
    /\ UNCHANGED <<credVars, worldVars, exportVars, f_id, normVars, listVars>>

\* lines 132-133, 169-170: sp.next(results) and the following page
GetTracksNextPage ==
    /\ f_pc = "next"
    /\ RequestPage(f_page + 1, "later")
    /\ UNCHANGED <<credVars, worldVars, exportVars, f_id, normVars, listVars>>

\* ------------------------------------------------------------------------
\* auth.is_token_expired, auth.refresh_token, app.ensure_valid_token
\* ------------------------------------------------------------------------

\* auth.py line 89: the safety margin in seconds
ExpiryMargin == 60

\* a token_info dictionary: its expires_at, and whether it holds 'refresh_token'
Token(expires_at, has_refresh) ==
    [t |-> "token", expires_at |-> expires_at, has_refresh |-> has_refresh]

IsToken(v) == v.t = "token"

NoExc == [type |-> "", text |-> "", detail |-> ""]

Flash(text, name, exc) == [text |-> text, name |-> name, exc |-> exc]

\* auth.py lines 75-89
is_token_expired(tok, t) ==
    IF ~IsToken(tok) THEN TRUE ELSE tok.expires_at - t < ExpiryMargin

\* auth.py lines 57-72: the outcomes of a refresh at time t; idp counts the
\* request to the identity provider (sp_oauth.refresh_access_token, which
\* keeps the refresh token in the credential it returns)
refresh_token(tok, t) ==
    IF ~IsToken(tok) \/ ~tok.has_refresh
    THEN {[ok |-> FALSE, idp |-> 0,
           exc |-> [type |-> "Exception", text |-> "No refresh token available", detail |-> ""]]}
    ELSE {[ok |-> TRUE, idp |-> 1, token |-> Token(t + TokenTTL, TRUE)],
          [ok |-> FALSE, idp |-> 1,
           exc |-> [type |-> "SpotifyOauthError", text |-> "invalid_grant", detail |-> ""]]}

\* a slip: a failed refresh leaves the stale credential in the session and
\* hands it to the caller
ensure_valid_token_KeepStale(sess, t) ==
    IF ~IsToken(sess)
    THEN {[ret |-> PyNone, session |-> sess, flashes |-> <<>>, idp |-> 0, gate |-> "absent"]}
    ELSE IF ~is_token_expired(sess, t)
    THEN {[ret |-> sess, session |-> sess, flashes |-> <<>>, idp |-> 0, gate |-> "valid"]}
    ELSE {IF r.ok
          THEN [ret |-> r.token, session |-> r.token, flashes |-> <<>>, idp |-> r.idp,
                gate |-> "refreshed"]
          ELSE [ret |-> sess, session |-> sess,
                flashes |-> <<Flash("Error refreshing token: ", <<>>, r.exc)>>,
                idp |-> r.idp, gate |-> "refresh_failed"]
          : r \in refresh_token(sess, t)}

\* app.py lines 21-41: the outcomes of ensure_valid_token on session value sess
\* at time t: the value returned, the session left, what was flashed
ensure_valid_token(sess, t) ==
    IF ~IsToken(sess)
    THEN {[ret |-> PyNone, session |-> sess, flashes |-> <<>>, idp |-> 0, gate |-> "absent"]}
    ELSE IF ~is_token_expired(sess, t)
    THEN {[ret |-> sess, session |-> sess, flashes |-> <<>>, idp |-> 0, gate |-> "valid"]}
    ELSE {IF r.ok
          THEN [ret |-> r.token, session |-> r.token, flashes |-> <<>>, idp |-> r.idp,
                gate |-> "refreshed"]
          ELSE [ret |-> PyNone, session |-> PyNone,
                flashes |-> <<Flash("Error refreshing token: ", <<>>, r.exc)>>,
                idp |-> r.idp, gate |-> "refresh_failed"]
          : r \in refresh_token(sess, t)}

\* ------------------------------------------------------------------------
\* The upstream catalog of the export runs
\* ------------------------------------------------------------------------

Str_A == <<"A">>

P1 == <<"p","1">>

P2 == <<"p","2">>

P3 == <<"p","3">>

\* a raw track record of media type "track"
RawTrack(id, name, artist, date) ==
    PyDict(MkDict([type |-> PyStr(<<"t","r","a","c","k">>),
                   id |-> PyStr(id), name |-> PyStr(name),
                   artists |-> PyList(<<PyDict(MkDict([name |-> PyStr(artist)]))>>),
                   album |-> PyDict(MkDict([name |-> PyStr(<<"W">>), release_date |-> PyStr(date)])),
                   duration_ms |-> PyInt(1000)]))

T1 == RawTrack(<<"t","1">>, <<"X">>, <<"Y">>, <<"2","0","2","0","-","0","5">>)

T2 == RawTrack(<<"t","2">>, <<"U">>, <<"V">>, <<"1","9","9","9">>)

T3 == RawTrack(<<"t","3">>, <<"Q">>, <<"R">>, <<>>)

Episode1 ==
    PyDict(MkDict([type |-> PyStr(<<"e","p","i","s","o","d","e">>),
                   id |-> PyStr(<<"e","1">>), name |-> PyStr(<<"E">>)]))

\* an item of a page: its 'item' and 'track' fields (Absent: no such key)
Item(item, track) == MkDict([item |-> item, track |-> track])

\* the collections upstream: P1 and P2 share the display name A and the track
\* T1, the saved tracks have two pages, P3 holds no exportable track and is
\* not among the user's playlists
FixedCatalog ==
    (LikedSongsId :> << <<Item(Absent, T1)>>, <<Item(Absent, T2)>> >>)
    @@ (P1 :> << <<Item(T1, T1), Item(Absent, Episode1), Item(Absent, T3)>> >>)
    @@ (P2 :> << <<Item(Absent, T1)>> >>)
    @@ (P3 :> << <<Item(Absent, PyNone)>> >>)

\* the raw playlist records that sp.current_user_playlists lists
UserPlaylists ==
    << MkDict([id |-> PyStr(P1), name |-> PyStr(Str_A)]),
       MkDict([id |-> PyStr(P2), name |-> PyStr(Str_A)]) >>

\* ------------------------------------------------------------------------
\* data_gathering.get_user_playlists, get_liked_songs (id and name)
\* ------------------------------------------------------------------------

UnnamedPlaylist == <<"U","n","n","a","m","e","d"," ","P","l","a","y","l","i","s","t">>

LikedSongsName == <<"L","i","k","e","d"," ","S","o","n","g","s">>

PlaylistPrefix == <<"P","l","a","y","l","i","s","t"," ">>

\* data_gathering.py lines 41-51: track_count; a missing 'items' is read as
\* the default {} of playlist.get('items', {}), which is a dictionary
TrackCountOf(playlist) ==
    LET items_info == DictGet(playlist, "items", PyDict(EmptyDict))
        tracks_info == DictGet(playlist, "tracks", PyDict(EmptyDict))
    IN  IF IsDict(items_info) THEN DictGet(items_info.d, "total", PyInt(0))
        ELSE IF IsDict(tracks_info) THEN DictGet(tracks_info.d, "total", PyInt(0))
        ELSE PyInt(0)

UnknownOwner == <<"U","n","k","n","o","w","n">>

\* data_gathering.py lines 54-58: owner
OwnerOf(playlist) ==
    LET owner_info == DictGet(playlist, "owner", PyDict(EmptyDict))
    IN  IF IsDict(owner_info)
        THEN IF Truthy(DictGet(owner_info.d, "display_name", PyNone))
             THEN owner_info.d["display_name"]
             ELSE DictGet(owner_info.d, "id", PyStr(UnknownOwner))
        ELSE PyStr(UnknownOwner)

\* data_gathering.py lines 60-66: the summary of one playlist record
PlaylistSummary(playlist) ==
    [id |-> DictGet(playlist, "id", PyStr(<<>>)),
     name |-> DictGet(playlist, "name", PyStr(UnnamedPlaylist)),
     description |-> DictGet(playlist, "description", PyStr(<<>>)),
     track_count |-> TrackCountOf(playlist),
     owner |-> OwnerOf(playlist)]

\* data_gathering.py lines 35-73 over the one page listed
get_user_playlists(listing) == [i \in 1..Len(listing) |-> PlaylistSummary(listing[i])]

\* data_gathering.py lines 90-96
LikedSongsSummary == [id |-> PyStr(LikedSongsId), name |-> PyStr(LikedSongsName)]

\* app.py line 126: {p['id']: p['name'] for p in all_playlists}; a later
\* summary of the same id replaces an earlier one
DictOfPlaylists(all_playlists) ==
    [i \in {all_playlists[k].id : k \in 1..Len(all_playlists)} |->
        LET last == CHOOSE k \in 1..Len(all_playlists) :
                        /\ all_playlists[k].id = i
                        /\ \A j \in (k + 1)..Len(all_playlists) : all_playlists[j].id # i
        IN  all_playlists[last].name]

\* app.py line 131
PlaylistNameOf(dict, playlist_id) ==
    DictGet(dict, PyStr(playlist_id), PyStr(PlaylistPrefix \o playlist_id))

\* ------------------------------------------------------------------------
\* data_output.combine_tracks_from_playlists, generate_csv_content
\* ------------------------------------------------------------------------

\* d[key] = value on a Python dict kept as its items in insertion order: a key
\* already held keeps its place and takes the new value
DictSet(d, key, value) ==
    IF \E i \in 1..Len(d) : d[i].k = key
    THEN [i \in 1..Len(d) |-> IF d[i].k = key THEN [k |-> key, v |-> value] ELSE d[i]]
    ELSE Append(d, [k |-> key, v |-> value])

RECURSIVE combine_tracks_from_playlists(_)
\* data_output.py lines 84-99
combine_tracks_from_playlists(d) ==
    IF d = <<>> THEN <<>>
    ELSE format_track_data(Head(d).v, Head(d).k) \o combine_tracks_from_playlists(Tail(d))

CsvHeader == <<"Name", "Artist", "Album", "Year", "Duration (ms)", "Playlist">>

\* data_output.py lines 34-55: the lines written (the header, then the rows);
\* no line at all for no rows
generate_csv_content(tracks_data) ==
    IF tracks_data = <<>> THEN [header |-> <<>>, rows |-> <<>>]
    ELSE [header |-> CsvHeader, rows |-> tracks_data]

\* ------------------------------------------------------------------------
\* app.py: the routes
\* ------------------------------------------------------------------------

NoResponse == [kind |-> "none"]

Redirect == [kind |-> "redirect"]

SendFile(content) == [kind |-> "file", csv |-> content]

\* the identifiers a request may select
SelectableIds == {LikedSongsId, P1, P2, P3}

Selections == UNION {[1..n -> SelectableIds] : n \in 0..MaxSel}

\* app.py lines 73-94: the callback of a successful login
Login ==
    /\ pc = "idle"
    /\ \E has_refresh \in BOOLEAN : session' = Token(now + TokenTTL, has_refresh)
    /\ UNCHANGED <<now, worldVars, exportVars, callVars, fetchVars, normVars, listVars>>

\* app.py lines 97-102
Logout ==
    /\ pc = "idle"
    /\ IsToken(session)
    /\ session' = PyNone
    /\ UNCHANGED <<now, worldVars, exportVars, callVars, fetchVars, normVars, listVars>>

\* the clock
Tick ==
    /\ pc # "direct"
    /\ now + TickLen <= MaxNow
    /\ now' = now + TickLen
    /\ UNCHANGED <<session, worldVars, exportVars, callVars, fetchVars, normVars, listVars>>

\* a slip: the export goes on with nothing selected
SelectionMissingNever(sel) == FALSE

\* app.py line 116: `if not playlist_ids`
SelectionMissing(sel) == sel = <<>>

\* app.py lines 106-118: the credential gate, then the selection
ExportBegin ==
    /\ pc = "idle"
    /\ \E sel \in Selections, g \in ensure_valid_token(session, now) :
        /\ session' = g.session
        /\ token_info' = g.ret
        /\ gate' = g.gate
        /\ idp_calls' = g.idp
        /\ playlist_ids' = sel
        /\ IF ~IsToken(g.ret)
           THEN /\ flashes' = g.flashes \o <<Flash("Please login first", <<>>, NoExc)>>
                /\ response' = Redirect
                /\ pc' = "done"
           ELSE IF SelectionMissing(sel)
           THEN /\ flashes' = g.flashes
                        \o <<Flash("Please select at least one playlist to export", <<>>, NoExc)>>
                /\ response' = Redirect
                /\ pc' = "done"
           ELSE /\ flashes' = g.flashes
                /\ pc' = "playlists"
                /\ UNCHANGED response
    /\ UNCHANGED <<now, worldVars, playlist_dict, idx, all_tracks_data, fetched,
                   callVars, fetchVars, normVars, listVars>>

\* the outer handler of export, app.py lines 167-169
ExportFails(e) ==
    /\ flashes' = Append(flashes, Flash("Error during export: ", <<>>, e))
    /\ response' = Redirect
    /\ pc' = "done"

\* app.py line 122: get_user_playlists
ExportListPlaylists ==
    /\ pc = "playlists"
    /\ cat_calls' = cat_calls + 1
    /\ last_call' = [api |-> "playlists", at |-> now, expires_at |-> token_info.expires_at]
    /\ \E status \in {200} \cup faults :
        IF status = 200
        THEN pc' = "liked" /\ UNCHANGED <<flashes, response>>
        ELSE ExportFails([type |-> "Exception", text |-> "Error fetching playlists: ",
                          detail |-> SpotifyException(status).msg])
    /\ UNCHANGED <<credVars, worldVars, token_info, playlist_ids, playlist_dict, idx,
                   all_tracks_data, gate, idp_calls, fetched, fetchVars, normVars, listVars>>

\* app.py lines 123-126: get_liked_songs, then the names by identifier
ExportLikedSongs ==
    /\ pc = "liked"
    /\ cat_calls' = cat_calls + 1
    /\ last_call' = [api |-> "liked_count", at |-> now, expires_at |-> token_info.expires_at]
    /\ \E status \in {200} \cup faults :
        IF status = 200
        THEN /\ playlist_dict' =
                    DictOfPlaylists(<<LikedSongsSummary>> \o get_user_playlists(UserPlaylists))
             /\ idx' = 1
             /\ pc' = "loop"
             /\ UNCHANGED <<flashes, response>>
        ELSE /\ ExportFails([type |-> "Exception", text |-> "Error fetching liked songs: ",
                             detail |-> SpotifyException(status).msg])
             /\ UNCHANGED <<playlist_dict, idx>>
    /\ UNCHANGED <<credVars, worldVars, token_info, playlist_ids, all_tracks_data,
                   gate, idp_calls, fetched, fetchVars, normVars, listVars>>

\* app.py lines 130-134: the next selected identifier, and the call of
\* get_playlist_tracks
ExportLoopCall ==
    /\ pc = "loop"
    /\ idx <= Len(playlist_ids)
    /\ pc' = "fetching"
    /\ f_pc' = "call"
    /\ f_id' = playlist_ids[idx]
    /\ f_page' = 0
    /\ f_tracks' = <<>>
    /\ f_seen' = <<>>
    /\ f_upstream' = NoUpstreamFailure
    /\ f_requests' = <<>>
    /\ f_result' = PyNone
    /\ UNCHANGED <<credVars, worldVars, token_info, playlist_ids, playlist_dict, idx,
                   all_tracks_data, flashes, response, gate, idp_calls, fetched,
                   callVars, normVars, listVars>>

\* app.py lines 135-138: the tracks returned are stored under the display
\* name; an exception is flashed and the loop goes on
ExportLoopCollect ==
    /\ pc = "fetching"
    /\ f_pc = "ret"
    /\ LET playlist_id == playlist_ids[idx]
           playlist_name == PlaylistNameOf(playlist_dict, playlist_id)
       IN  /\ fetched' = Append(fetched, [id |-> playlist_id, name |-> playlist_name,
                                          result |-> f_result])
           /\ IF f_result.ok
              THEN /\ all_tracks_data' = DictSet(all_tracks_data, playlist_name, f_result.tracks)
                   /\ UNCHANGED flashes
              ELSE /\ flashes' = Append(flashes, Flash("Error fetching tracks from ",
                                                       playlist_name.s, f_result.exc))
                   /\ UNCHANGED all_tracks_data
    /\ idx' = idx + 1
    /\ pc' = "loop"
    /\ f_pc' = "off"
    /\ UNCHANGED <<credVars, worldVars, token_info, playlist_ids, playlist_dict, response,
                   gate, idp_calls, callVars, f_id, f_page, f_tracks, f_result, f_seen,
                   f_upstream, f_requests, normVars, listVars>>

\* app.py lines 140-165
ExportFinish ==
    /\ pc = "loop"
    /\ idx > Len(playlist_ids)
    /\ IF all_tracks_data = <<>>
       THEN /\ flashes' = Append(flashes,
                    Flash("No tracks were retrieved from selected playlists", <<>>, NoExc))
            /\ response' = Redirect
       ELSE /\ response' =
                    SendFile(generate_csv_content(combine_tracks_from_playlists(all_tracks_data)))
            /\ UNCHANGED flashes
    /\ pc' = "done"
    /\ UNCHANGED <<credVars, worldVars, token_info, playlist_ids, playlist_dict, idx,
                   all_tracks_data, gate, idp_calls, fetched, callVars, fetchVars, normVars, listVars>>

\* the request is over: its locals are gone, the session stays
ExportReturn ==
    /\ pc = "done"
    /\ pc' = "idle"
    /\ token_info' = PyNone
    /\ playlist_ids' = <<>>
    /\ playlist_dict' = <<>>
    /\ idx' = 0
    /\ all_tracks_data' = <<>>
    /\ flashes' = <<>>
    /\ response' = NoResponse
    /\ gate' = "none"
    /\ idp_calls' = 0
    /\ fetched' = <<>>
    /\ cat_calls' = 0
    /\ last_call' = NoCall
    /\ f_pc' = "off"
    /\ f_id' = <<>>
    /\ f_page' = 0
    /\ f_tracks' = <<>>
    /\ f_result' = PyNone
    /\ f_seen' = <<>>
    /\ f_upstream' = NoUpstreamFailure
    /\ f_requests' = <<>>
    /\ UNCHANGED <<credVars, worldVars, normVars, listVars>>

\* ------------------------------------------------------------------------
\* Specification of the web application
\* ------------------------------------------------------------------------

ListIdle ==
    /\ playlist_pages = <<>>
    /\ l_pc = "off"
    /\ l_page = 0
    /\ l_playlists = <<>>
    /\ l_result = PyNone
    /\ l_requests = <<>>

NormIdle ==
    /\ n_pc = "off"
    /\ n_track = EmptyDict
    /\ n_result = PyNone
    /\ n_row = PyNone

RequestIdle ==
    /\ playlist_ids = <<>>
    /\ playlist_dict = <<>>
    /\ idx = 0
    /\ all_tracks_data = <<>>
    /\ flashes = <<>>
    /\ response = NoResponse
    /\ gate = "none"
    /\ idp_calls = 0
    /\ fetched = <<>>
    /\ cat_calls = 0
    /\ last_call = NoCall

FetchIdle ==
    /\ f_pc = "off"
    /\ f_id = <<>>
    /\ f_page = 0
    /\ f_tracks = <<>>
    /\ f_result = PyNone
    /\ f_seen = <<>>
    /\ f_upstream = NoUpstreamFailure
    /\ f_requests = <<>>

Init ==
    /\ session = PyNone
    /\ now = 0
    /\ catalog = FixedCatalog
    /\ faults = {403}
    /\ pc = "idle"
    /\ token_info = PyNone
    /\ RequestIdle
    /\ FetchIdle
    /\ NormIdle
    /\ ListIdle

Next ==
    \/ Login
    \/ Logout
    \/ Tick
    \/ ExportBegin
    \/ ExportListPlaylists
    \/ ExportLikedSongs
    \/ ExportLoopCall
    \/ GetTracksFirstPage
    \/ GetTracksNextPage
    \/ ExportLoopCollect
    \/ ExportFinish
    \/ ExportReturn

Spec == Init /\ [][Next]_vars

\* ------------------------------------------------------------------------
\* Specification of get_playlist_tracks alone: every chain of pages within
\* the bounds, for the saved tracks and for a playlist
\* ------------------------------------------------------------------------

TrackType == PyStr(<<"t","r","a","c","k">>)

\* an embedded payload with the given 'type' and 'id' (Absent: no such key)
Payload(type, id) == PyDict(MkDict([type |-> type, id |-> id]))

\* a track whose one artist has a null name
NullArtistTrack ==
    PyDict(MkDict([type |-> TrackType, id |-> PyStr(<<"t","6">>),
                   artists |-> PyList(<<PyDict(MkDict([name |-> PyNone]))>>)]))

\* the items a page may hold
FetchItems ==
    { Item(Absent, Absent),
      Item(Absent, PyNone),
      Item(Absent, PyStr(<<"x">>)),
      Item(Absent, Payload(TrackType, PyStr(<<"t","1">>))),
      Item(Absent, Payload(PyStr(<<"e","p","i","s","o","d","e">>), PyStr(<<"e","1">>))),
      Item(Absent, Payload(TrackType, Absent)),
      Item(Absent, Payload(TrackType, PyStr(<<>>))),
      Item(Absent, Payload(Absent, PyStr(<<"t","2">>))),
      Item(Payload(TrackType, PyStr(<<"t","3">>)), Absent),
      Item(PyNone, Payload(TrackType, PyStr(<<"t","4">>))),
      Item(Payload(PyStr(<<"e","p","i","s","o","d","e">>), PyStr(<<"e","2">>)),
           Payload(TrackType, PyStr(<<"t","5">>))),
      Item(Absent, NullArtistTrack) }

RECURSIVE SumTo(_, _)
SumTo(sz, n) == IF n = 0 THEN 0 ELSE sz[n] + SumTo(sz, n - 1)

\* the pages of sizes sz cut from the items its
CutPages(its, sz) ==
    [i \in 1..Len(sz) |-> SubSeq(its, SumTo(sz, i - 1) + 1, SumTo(sz, i))]

\* the chains of 1..MaxPages pages holding at most MaxItems items together
PageChains ==
    UNION { UNION { {CutPages(its, sz) : its \in [1..SumTo(sz, n) -> FetchItems]}
                    : sz \in {z \in [1..n -> 0..MaxItems] : SumTo(z, n) <= MaxItems} }
            : n \in 1..MaxPages }

InitFetch ==
    /\ session = Token(TokenTTL, TRUE)
    /\ now = 0
    /\ faults = HttpFailures
    /\ pc = "direct"
    /\ token_info = session
    /\ RequestIdle
    /\ NormIdle
    /\ ListIdle
    /\ f_pc = "call"
    /\ f_id \in {LikedSongsId, P1}
    /\ catalog \in {f_id :> c : c \in PageChains}
    /\ f_page = 0
    /\ f_tracks = <<>>
    /\ f_result = PyNone
    /\ f_seen = <<>>
    /\ f_upstream = NoUpstreamFailure
    /\ f_requests = <<>>

NextFetch ==
    \/ GetTracksFirstPage
    \/ GetTracksNextPage

SpecFetch == InitFetch /\ [][NextFetch]_vars

\* ------------------------------------------------------------------------
\* Specification of the normaliser alone: extract_track_info, then
\* format_track_data, on every raw track record within the bounds
\* ------------------------------------------------------------------------

ArtistEntries ==
    { PyDict(MkDict([name |-> PyStr(<<"X">>)])),
      PyDict(MkDict([name |-> PyStr(<<"Y">>)])),
      PyDict(EmptyDict),
      PyDict(MkDict([name |-> PyNone])),
      PyStr(<<"Z">>) }

ArtistsValues ==
    {Absent, PyNone, PyStr(<<"Z">>)}
        \cup {PyList(l) : l \in UNION {[1..n -> ArtistEntries] : n \in 0..MaxArtists}}

ReleaseDates ==
    { Absent, PyNone, PyStr(<<>>), PyStr(<<"2","0","2","0","-","0","5","-","0","1">>),
      PyStr(<<"2","0","2","0">>), PyStr(<<"a","b","c">>), PyStr(<<"-","5">>),
      PyInt(1999), PyInt(0), PyList(<<PyStr(<<"a","-","b">>)>>) }

AlbumValues ==
    {Absent, PyNone, PyStr(<<"W">>)}
        \cup {PyDict(MkDict([name |-> n, release_date |-> d])) :
                n \in {Absent, PyNone, PyStr(<<"W">>)}, d \in ReleaseDates}

RawTracks ==
    { MkDict([artists |-> a, album |-> al, id |-> i, name |-> n, duration_ms |-> d]) :
        a \in ArtistsValues, al \in AlbumValues,
        i \in {Absent, PyStr(<<"t","1">>)},
        n \in {Absent, PyNone, PyStr(<<"N">>)},
        d \in {Absent, PyNone, PyInt(1000)} }

InitNorm ==
    /\ session = PyNone
    /\ now = 0
    /\ catalog = FixedCatalog
    /\ faults = {}
    /\ pc = "direct"
    /\ token_info = PyNone
    /\ RequestIdle
    /\ FetchIdle
    /\ ListIdle
    /\ n_pc = "start"
    /\ n_track \in RawTracks
    /\ n_result = PyNone
    /\ n_row = PyNone

\* data_gathering.py lines 184-226 on the record drawn
NormExtract ==
    /\ n_pc = "start"
    /\ n_result' = extract_track_info(n_track)
    /\ n_pc' = "extracted"
    /\ UNCHANGED <<credVars, worldVars, exportVars, callVars, fetchVars, listVars, n_track, n_row>>

\* data_output.py lines 10-31 on the Track returned
NormFormat ==
    /\ n_pc = "extracted"
    /\ n_result.ok
    /\ n_row' = format_track_data(<<n_result.val>>, PyStr(LikedSongsName))[1]
    /\ n_pc' = "formatted"
    /\ UNCHANGED <<credVars, worldVars, exportVars, callVars, fetchVars, listVars, n_track, n_result>>

NextNorm ==
    \/ NormExtract
    \/ NormFormat

SpecNorm == InitNorm /\ [][NextNorm]_vars

\* ------------------------------------------------------------------------
\* Properties of the export (specification Spec)
\* ------------------------------------------------------------------------

HasFlash(text) == \E i \in 1..Len(flashes) : flashes[i].text = text

AuthRequired == response = Redirect /\ HasFlash("Please login first")

NoSelection ==
    response = Redirect /\ HasFlash("Please select at least one playlist to export")

EmptyResult ==
    response = Redirect /\ HasFlash("No tracks were retrieved from selected playlists")

\* the export went through its loop over the selected collections
LoopCompleted == pc = "done" /\ playlist_ids # <<>> /\ idx > Len(playlist_ids)

RECURSIVE RowsInRequestOrder(_)
\* the rows of the collections fetched without error, collection after
\* collection as requested, each track stamped with its collection's name
RowsInRequestOrder(log) ==
    IF log = <<>> THEN <<>>
    ELSE (IF Head(log).result.ok
          THEN [i \in 1..Len(Head(log).result.tracks) |->
                    FormatRow(Head(log).result.tracks[i], Head(log).name)]
          ELSE <<>>) \o RowsInRequestOrder(Tail(log))

SomeFetched == \E i \in 1..Len(fetched) : fetched[i].result.ok

SomeFailed == \E i \in 1..Len(fetched) : ~fetched[i].result.ok

\* C1: the rows of the file produced are the concatenation, in the order
\* the collections were requested, of the tracks of every collection fetched
\* without error, each stamped with its display name; nothing is dropped, also
\* when two selected collections share a display name or an identifier is
\* selected twice.
C1_RowsAreConcatenation ==
    (LoopCompleted /\ response.kind = "file")
        => response.csv.rows = RowsInRequestOrder(fetched)

\* C2 as stated: an export with nothing selected ends with NoSelection without
\* any call to the identity provider or to the catalog API before it.
C2_NoNetworkBeforeNoSelection ==
    (pc = "done" /\ playlist_ids = <<>> /\ NoSelection)
        => (idp_calls = 0 /\ cat_calls = 0)

\* C2 amended: an export with nothing selected never calls the catalog API;
\* with a credential that is not expired it ends with NoSelection and no call
\* to the identity provider; with an expired credential the refresh is
\* requested first (at most one call), and NoSelection follows when it
\* succeeds; with no credential, or a failed refresh, it ends with
\* AuthRequired instead.
C2_NoCatalogCallBeforeNoSelection ==
    (pc = "done" /\ playlist_ids = <<>>)
        => /\ cat_calls = 0
           /\ idp_calls <= 1
           /\ gate = "valid" => (NoSelection /\ idp_calls = 0)
           /\ gate = "refreshed" => (NoSelection /\ idp_calls = 1)
           /\ gate \in {"absent", "refresh_failed"} => (AuthRequired /\ ~NoSelection)

\* C2 witness: nothing selected, the credential was expired and refreshed
C2_Witness ==
    /\ pc = "done"
    /\ playlist_ids = <<>>
    /\ gate = "refreshed"
    /\ idp_calls = 1
    /\ NoSelection

\* C3: whenever a catalog call is issued, the credential it uses is not within
\* 60 seconds of its expiry, also when time advances between the calls of one
\* export.
C3_FreshAtEveryCall ==
    last_call.api # "none" => last_call.expires_at - last_call.at >= ExpiryMargin

\* C4: when the fetch of a selected collection fails, the failure is flashed
\* with that collection's name, every selected collection is still fetched,
\* and when at least one fetch succeeded the export returns a file holding
\* all rows of every collection fetched without error (and none of a failed
\* one).
C4_FailureIsolation ==
    (LoopCompleted /\ SomeFailed)
        => /\ Len(fetched) = Len(playlist_ids)
           /\ \A i \in 1..Len(fetched) :
                ~fetched[i].result.ok =>
                    \E j \in 1..Len(flashes) :
                        /\ flashes[j].text = "Error fetching tracks from "
                        /\ flashes[j].name = fetched[i].name.s
                        /\ flashes[j].exc = fetched[i].result.exc
           /\ SomeFetched =>
                /\ response.kind = "file"
                /\ response.csv.rows = RowsInRequestOrder(fetched)

\* C5: the export ends with EmptyResult, and returns no file, whenever every
\* selected collection failed or yielded no track.
C5_EmptyResult ==
    (LoopCompleted /\ \A i \in 1..Len(fetched) :
                        ~fetched[i].result.ok \/ fetched[i].result.tracks = <<>>)
        => (EmptyResult /\ response.kind # "file")

\* C6: with no stored credential, or an expired one whose refresh fails, the
\* export issues no catalog call and returns no file but the AuthRequired
\* redirect; after a failed refresh the session holds no credential, so that
\* requests stay unauthenticated until a login.
C6_CredentialFailureAborts ==
    (pc \notin {"idle", "direct"} /\ gate \in {"absent", "refresh_failed"})
        => /\ pc = "done"
           /\ cat_calls = 0
           /\ AuthRequired
           /\ response.kind # "file"
           /\ session = PyNone
           /\ gate = "refresh_failed" => HasFlash("Error refreshing token: ")

\* C6 witness: a non-empty selection, and the identity provider rejected the
\* refresh
C6_Witness ==
    /\ pc = "done"
    /\ playlist_ids # <<>>
    /\ gate = "refresh_failed"
    /\ idp_calls = 1
    /\ session = PyNone

\* ------------------------------------------------------------------------
\* Properties of get_playlist_tracks (specification SpecFetch)
\* ------------------------------------------------------------------------

AccessDeniedTexts ==
    { "Access denied. You may need to re-authenticate with updated permissions.",
      "Access denied to playlist. You may need to re-authenticate with updated permissions, or this playlist may not be accessible with your current permissions." }

CollectionNotFoundTexts ==
    { "Resource not found. It may have been deleted or you may not have access.",
      "Playlist not found. It may have been deleted or you may not have access." }

FetchFailedTexts == {"Error fetching playlist tracks: ", "Error accessing playlist: "}

\* the messages of the handler of the first request of a playlist
FirstPageTexts ==
    { "Access denied to playlist. You may need to re-authenticate with updated permissions, or this playlist may not be accessible with your current permissions.",
      "Playlist not found. It may have been deleted or you may not have access.",
      "Error accessing playlist: " }

\* C7: for the saved tracks and for a playlist, on the first page and on a
\* later one, an upstream 403 is raised as the access-denied error (naming
\* re-authentication), a 404 as the not-found error, any other failure as the
\* fetch-failed error carrying the upstream message; the error the handler of
\* a playlist's first page raised is raised unchanged.
C7_ErrorClassification ==
    (f_pc = "ret" /\ f_upstream.stage # "none")
        => /\ ~f_result.ok
           /\ f_result.exc.type = "Exception"
           /\ f_upstream.status = 403 => f_result.exc.text \in AccessDeniedTexts
           /\ f_upstream.status = 404 => f_result.exc.text \in CollectionNotFoundTexts
           /\ f_upstream.status \notin {403, 404} =>
                /\ f_result.exc.text \in FetchFailedTexts
                /\ f_result.exc.detail = SpotifyException(f_upstream.status).msg
           /\ (f_id # LikedSongsId /\ f_upstream.stage = "first") =>
                f_result.exc.text \in FirstPageTexts

\* C7 witness: a playlist whose second page is answered with 403
C7_Witness ==
    /\ f_pc = "ret"
    /\ f_id = P1
    /\ f_upstream = [stage |-> "later", status |-> 403]
    /\ ~f_result.ok

\* the embedded payload of an item: the 'track' field of a saved track; the
\* 'item' field of a playlist item, or its 'track' field when 'item' is empty
EmbeddedPayload(playlist_id, item) ==
    IF playlist_id = LikedSongsId THEN DictGet(item, "track", PyNone)
    ELSE IF "item" \in DOMAIN item /\ Truthy(item["item"]) THEN item["item"]
    ELSE DictGet(item, "track", PyNone)

HasIdentifier(payload) ==
    /\ payload.t = "dict"
    /\ "id" \in DOMAIN payload.d
    /\ payload.d["id"] \notin {PyNone, PyStr(<<>>)}

IsTrackPayload(payload) ==
    /\ HasIdentifier(payload)
    /\ "type" \in DOMAIN payload.d
    /\ payload.d["type"] = PyStr(<<"t","r","a","c","k">>)

RECURSIVE TracksOfKept(_, _, _)
\* the Tracks of the items whose payload has an identifier and, when typed,
\* the media type "track", in the order of the items
TracksOfKept(playlist_id, items, typed) ==
    IF items = <<>> THEN <<>>
    ELSE LET payload == EmbeddedPayload(playlist_id, Head(items))
             kept == IF typed THEN IsTrackPayload(payload) ELSE HasIdentifier(payload)
         IN  (IF kept THEN <<extract_track_info(payload.d).val>> ELSE <<>>)
                \o TracksOfKept(playlist_id, Tail(items), typed)

C9_NormalizerNeverFails ==
    n_pc # "start" => n_result.ok

\* the value under a key is missing or null
Lacks(d, key) == key \notin DOMAIN d \/ d[key] = PyNone

\* C10: no field of the Track or of the row is null, and a field whose value
\* is missing or null takes its placeholder.
C10_NoNullField ==
    (n_pc \in {"extracted", "formatted"} /\ n_result.ok)
        => /\ \A k \in DOMAIN n_result.val : n_result.val[k] # PyNone
           /\ n_pc = "formatted" => \A k \in DOMAIN n_row : n_row[k] # PyNone
           /\ Lacks(n_track, "duration_ms") => n_result.val.duration_ms = PyInt(0)
           /\ Lacks(n_track, "album") => n_result.val.album = PyStr(UnknownAlbum)
           /\ Lacks(n_track, "album") => n_result.val.year = PyStr(<<>>)
           /\ Lacks(n_track, "artists") => n_result.val.artist = PyStr(UnknownArtist)

\* ------------------------------------------------------------------------
\* data_gathering.get_user_playlists, page by page
\* ------------------------------------------------------------------------

RECURSIVE PagePlaylists(_, _)
\* lines 38-66: the loop over the playlist records of one page; a record that
\* is no dictionary has no get (AttributeError, which line 74 does not catch)
PagePlaylists(items, playlists) ==
    IF items = <<>> THEN [ok |-> TRUE, playlists |-> playlists]
    ELSE IF ~IsDict(Head(items)) THEN [ok |-> FALSE, exc |-> RawException("AttributeError")]
    ELSE PagePlaylists(Tail(items), Append(playlists, PlaylistSummary(Head(items).d)))

\* lines 74-75: the handler of get_user_playlists
ListHandler(e) ==
    [type |-> "Exception", text |-> "Error fetching playlists: ", detail |-> e.msg]

\* one request of a page (number n) of the playlists and the loop over it
ListRequestPage(n) ==
    \E status \in {200} \cup faults :
        /\ cat_calls' = cat_calls + 1
        /\ last_call' = [api |-> "playlists", at |-> now, expires_at |-> token_info.expires_at]
        /\ l_requests' = Append(l_requests, n)
        /\ IF status # 200
           THEN /\ l_result' = [ok |-> FALSE, exc |-> ListHandler(SpotifyException(status))]
                /\ l_pc' = "ret"
                /\ UNCHANGED <<l_page, l_playlists>>
           ELSE LET r == PagePlaylists(playlist_pages[n], l_playlists)
                IN  /\ l_page' = n
                    /\ IF ~r.ok
                       THEN /\ l_result' = [ok |-> FALSE, exc |-> r.exc]
                            /\ l_pc' = "ret"
                            /\ UNCHANGED l_playlists
                       ELSE /\ l_playlists' = r.playlists
                            /\ IF n < Len(playlist_pages)
                               THEN l_pc' = "next" /\ UNCHANGED l_result
                               ELSE /\ l_pc' = "ret"
                                    /\ l_result' = [ok |-> TRUE, playlists |-> r.playlists]

\* lines 32-35 and the first page: sp.current_user_playlists(limit=50)
ListFirstPage ==
    /\ l_pc = "call"
    /\ ListRequestPage(1)
    /\ UNCHANGED <<credVars, worldVars, exportVars, fetchVars, normVars, playlist_pages>>

\* lines 68-69: sp.next(results) and the following page
ListNextPage ==
    /\ l_pc = "next"
    /\ ListRequestPage(l_page + 1)
    /\ UNCHANGED <<credVars, worldVars, exportVars, fetchVars, normVars, playlist_pages>>

\* ------------------------------------------------------------------------
\* Specification of get_user_playlists alone: every chain of pages of
\* playlist records within the bounds
\* ------------------------------------------------------------------------

\* the playlist records a page may hold: 'items' and 'tracks' in the shapes
\* the API was seen to answer with, and a record that is null
ListRecords ==
    {PyNone} \cup
    { PyDict(MkDict([id |-> PyStr(P1), items |-> i, tracks |-> t])) :
        i \in {Absent, PyNone, PyList(<<>>), PyDict(EmptyDict),
               PyDict(MkDict([total |-> PyInt(3)]))},
        t \in {Absent, PyNone, PyDict(EmptyDict), PyDict(MkDict([total |-> PyInt(5)]))} }

\* the chains of 1..MaxPages pages holding at most MaxItems records together
ListChains ==
    UNION { UNION { {CutPages(its, sz) : its \in [1..SumTo(sz, n) -> ListRecords]}
                    : sz \in {z \in [1..n -> 0..MaxItems] : SumTo(z, n) <= MaxItems} }
            : n \in 1..MaxPages }

InitList ==
    /\ session = Token(TokenTTL, TRUE)
    /\ now = 0
    /\ catalog = FixedCatalog
    /\ faults = HttpFailures
    /\ pc = "direct"
    /\ token_info = session
    /\ RequestIdle
    /\ FetchIdle
    /\ NormIdle
    /\ playlist_pages \in ListChains
    /\ l_pc = "call"
    /\ l_page = 0
    /\ l_playlists = <<>>
    /\ l_result = PyNone
    /\ l_requests = <<>>

NextList ==
    \/ ListFirstPage
    \/ ListNextPage

SpecList == InitList /\ [][NextList]_vars

\* both fetchers, each on every chain of pages within the bounds
InitPaging == InitFetch \/ InitList

NextPaging ==
    \/ GetTracksFirstPage
    \/ GetTracksNextPage
    \/ ListFirstPage
    \/ ListNextPage

\* a fetcher is a loop of one thread that nothing suspends: it keeps stepping
SpecPaging == InitPaging /\ [][NextPaging]_vars /\ WF_vars(NextPaging)

\* ------------------------------------------------------------------------
\* Properties of get_user_playlists (specification SpecList)
\* ------------------------------------------------------------------------

RECURSIVE AllItems(_)
\* the items of all the pages of a chain, in page order then item order
AllItems(pages) == IF pages = <<>> THEN <<>> ELSE Head(pages) \o AllItems(Tail(pages))

\* the total held under a field that is a mapping (0 when it holds none)
TotalUnder(playlist, field) == DictGet(playlist[field].d, "total", PyInt(0))

HasMapping(playlist, field) == field \in DOMAIN playlist /\ IsDict(playlist[field])

\* the item count by the fallback order: 'items' when a mapping, otherwise
\* 'tracks' when a mapping, otherwise 0
CountByFallback(playlist) ==
    IF HasMapping(playlist, "items") THEN TotalUnder(playlist, "items")
    ELSE IF HasMapping(playlist, "tracks") THEN TotalUnder(playlist, "tracks")
    ELSE PyInt(0)

\* C12: the item count of every playlist listed is the total under 'items'
\* when that field is a mapping, otherwise (the field is missing or is no
\* mapping) the total under 'tracks' when that is a mapping, otherwise 0; a
\* record with no 'items' field and tracks.total = n gets the count n.
C12_TrackCountFallback ==
    \A i \in 1..Len(l_playlists) :
        l_playlists[i].track_count = CountByFallback(AllItems(playlist_pages)[i].d)

\* ------------------------------------------------------------------------
\* Properties of the paging of both fetchers (specification SpecPaging)
\* ------------------------------------------------------------------------

\* the page numbers 1..n in order
FirstPages(n) == [i \in 1..n |-> i]

\* the chain of pages the running fetcher walks
ChainWalked == IF f_pc # "off" THEN catalog[f_id] ELSE playlist_pages

RequestsMade == IF f_pc # "off" THEN f_requests ELSE l_requests

Returned == f_pc = "ret" \/ l_pc = "ret"

\* a request of the run was answered with a failure
UpstreamFailed ==
    \/ f_upstream.stage # "none"
    \/ /\ l_pc = "ret"
       /\ ~l_result.ok
       /\ \E status \in HttpFailures : l_result.exc = ListHandler(SpotifyException(status))

\* the pages requested so far are the first pages of the chain, each once and
\* in chain order: no retry, no page skipped, none beyond the last
RequestsInChainOrder ==
    /\ Len(RequestsMade) <= Len(ChainWalked)
    /\ RequestsMade = FirstPages(Len(RequestsMade))

\* what was returned holds the items of all the pages, in page order then
\* item order
ReturnsAllItems ==
    IF f_pc # "off"
    THEN /\ f_result.ok
         /\ f_result.tracks = TracksOfKept(f_id, AllItems(catalog[f_id]), f_id # LikedSongsId)
    ELSE /\ l_result.ok
         /\ \A i \in 1..Len(AllItems(playlist_pages)) : IsDict(AllItems(playlist_pages)[i])
         /\ l_result.playlists
                = [i \in 1..Len(AllItems(playlist_pages))
                     |-> PlaylistSummary(AllItems(playlist_pages)[i].d)]

\* once returned with every request answered, the whole chain was walked and
\* its items are what was returned
WalkedToTheEnd ==
    (Returned /\ ~UpstreamFailed)
        => /\ RequestsMade = FirstPages(Len(ChainWalked))
           /\ ReturnsAllItems

\* C11: on any finite chain of pages whose requests are all answered,
\* get_playlist_tracks and get_user_playlists return; they request each page
\* of the chain once, in chain order, without retry and without a request
\* after the last page; and they return the items of all the pages in page
\* order then item order.
C11_PagingToCompletion ==
    /\ [](RequestsInChainOrder /\ WalkedToTheEnd)
    /\ <>Returned

\* the part of C11 about the requests alone
C11_RequestsOnly == []RequestsInChainOrder /\ <>Returned

====
